---- MODULE Spec2Model ----
(***************************************************************************)
(* MergeTranslationFiles.py: build_width_map scans a reference document    *)
(* into a (GroupId, LocalizedString Id) -> Width table, and                *)
(* apply_widths_surgically rewrites the Width attribute of the matching    *)
(* LocalizedString tags of a source document.                              *)
(*                                                                         *)
(* A text is a sequence of atoms.  The characters the regular expressions  *)
(* single out ('>', '"', '/', white space) are atoms of their own; every   *)
(* other atom is a run of characters holding none of them, so a match of   *)
(* one of the program's regular expressions always starts and ends at an   *)
(* atom boundary and the operators below compute exactly the match Python  *)
(* computes on the concatenated characters.                                *)
(***************************************************************************)
EXTENDS Integers, Sequences, FiniteSets

VARIABLES
    pc,             \* position in main: "main", "scan", "patch", "done"
    ref_text,       \* build_width_map: the reference file as read
    src_text,       \* apply_widths_surgically: the source file as read
    output_file,    \* content of the output path: None, or Some(text) once written
    scan_pos,       \* where token_re.finditer resumes in the text scanned
    current_group,  \* None or Some(group id), of the function running
    width_map,      \* the table: a function from <<group id, loc id>> to width
    out_parts,      \* ''.join(out_parts) so far
    last_idx,       \* last_idx: the atoms of src_text before it are dealt with
    updated_count,
    stdout          \* what print() reported: <<>> or <<updated_count>>

vars == <<pc, ref_text, src_text, output_file, scan_pos, current_group,
          width_map, out_parts, last_idx, updated_count, stdout>>

----------------------------------------------------------------------------
(* Atoms and character classes *)

Q == "\""
GT == ">"
SLASH == "/"
SP == " "
NL == "\n"

\* \s
IsSpace(a) == a \in {SP, NL}

\* atoms made of word characters only ([A-Za-z0-9_])
WordAtoms == {"Max", "Dialog1", "Dialog2", "OkButton", "CancelButton", "50", "20", "9"}

\* the first character of the atom is a word character
StartsWord(a) == a \in WordAtoms \cup {"Id=", "Width=", "Height="}

\* the last character of the atom is a word character
EndsWord(a) == a \in WordAtoms \cup {"<Group", "</Group", "<LocalizedString"}

\* \b in front of atom i, which starts with a word character
BoundaryBefore(t, i) == i = 1 \/ ~EndsWord(t[i - 1])

\* \b behind atom i, which ends with a word character
BoundaryAfter(t, i) == i = Len(t) \/ ~StartsWord(t[i + 1])

None == <<>>
Some(x) == <<x>>

Min(S) == CHOOSE x \in S : \A y \in S : x <= y
Max(S) == CHOOSE x \in S : \A y \in S : y <= x

\* least index >= from holding atom a, 0 when there is none
RECURSIVE FirstIndex(_, _, _)
FirstIndex(t, from, a) ==
    IF from > Len(t) THEN 0
    ELSE IF t[from] = a THEN from
    ELSE FirstIndex(t, from + 1, a)

Slice(t, a, b) == IF a > b THEN <<>> ELSE SubSeq(t, a, b)

RECURSIVE Concat(_)
Concat(ss) == IF ss = <<>> THEN <<>> ELSE Head(ss) \o Concat(Tail(ss))

----------------------------------------------------------------------------
(* The regular expressions *)

\* \b<name>"([^"]*)" matches from atom j on (name is "Id=" or "Width=")
AttrAt(t, j, name) ==
    /\ t[j] = name
    /\ BoundaryBefore(t, j)
    /\ j < Len(t)
    /\ t[j + 1] = Q
    /\ FirstIndex(t, j + 2, Q) # 0

\* re.search of \b<name>"([^"]*)": the leftmost match, its span and group(1)
AttrSearch(t, name) ==
    LET S == {j \in 1 .. Len(t) : AttrAt(t, j, name)}
    IN IF S = {} THEN [hit |-> FALSE]
       ELSE LET j == Min(S)
                q == FirstIndex(t, j + 2, Q)
            IN [hit |-> TRUE, start |-> j, end |-> q, value |-> Slice(t, j + 2, q - 1)]

\* id_attr_re = \bId="([^"]*)"
IdAttrSearch(tag) == AttrSearch(tag, "Id=")

\* width_attr_re = \bWidth="([^"]*)"
WidthAttrSearch(tag) == AttrSearch(tag, "Width=")

\* mutant: Height= is never found
HeightSearch_NoMatch(tag) == 0

\* re.search(r'\bHeight="', tag).start(), 0 when there is no match
HeightSearch(tag) ==
    LET S == {j \in 1 .. Len(tag) - 1 :
                 tag[j] = "Height=" /\ BoundaryBefore(tag, j) /\ tag[j + 1] = Q}
    IN IF S = {} THEN 0 ELSE Min(S)

\* mutant: the pattern is /?>\s*$, without the white space in front
CloseSearch_NoSpace(tag) ==
    LET S == {p \in 1 .. Len(tag) :
                 \E g \in p .. Len(tag) :
                    /\ tag[g] = GT
                    /\ \A k \in g + 1 .. Len(tag) : IsSpace(tag[k])
                    /\ \A k \in p .. g - 1 : k = g - 1 /\ tag[k] = SLASH}
    IN IF S = {} THEN 0 ELSE Min(S)

\* re.search(r'\s*/?>\s*$', tag).start(), 0 when there is no match
CloseSearch(tag) ==
    LET S == {p \in 1 .. Len(tag) :
                 \E g \in p .. Len(tag) :
                    /\ tag[g] = GT
                    /\ \A k \in g + 1 .. Len(tag) : IsSpace(tag[k])
                    /\ \A k \in p .. g - 1 :
                          IsSpace(tag[k]) \/ (k = g - 1 /\ tag[k] = SLASH)}
    IN IF S = {} THEN 0 ELSE Min(S)

\* group_open_re = <Group\b[^>]*\bId="([^"]+)"[^>]*> matched at atom i:
\* the greedy [^>]* gives the last Id="..." before the first '>' whose value is
\* not empty and which a '>' follows.  end = 0 when there is no match.
GroupOpenAt(t, i) ==
    IF i > Len(t) \/ t[i] # "<Group" \/ ~BoundaryAfter(t, i) THEN [end |-> 0]
    ELSE LET g == FirstIndex(t, i + 1, GT)
             S == {j \in i + 1 .. g - 1 :
                     /\ AttrAt(t, j, "Id=")
                     /\ FirstIndex(t, j + 2, Q) > j + 2
                     /\ FirstIndex(t, FirstIndex(t, j + 2, Q) + 1, GT) # 0}
         IN IF g = 0 \/ S = {} THEN [end |-> 0]
            ELSE LET j == Max(S)
                     q == FirstIndex(t, j + 2, Q)
                 IN [end |-> FirstIndex(t, q + 1, GT), id |-> Slice(t, j + 2, q - 1)]

\* group_close_re = </Group> matched at atom i: the end of the match, or 0
GroupCloseAt(t, i) ==
    IF i < Len(t) /\ t[i] = "</Group" /\ t[i + 1] = GT THEN i + 1 ELSE 0

\* ls_tag_re = <LocalizedString\b[^>]*?/?> matched at atom i: the end, or 0
LsTagAt(t, i) ==
    IF i <= Len(t) /\ t[i] = "<LocalizedString" /\ BoundaryAfter(t, i)
    THEN FirstIndex(t, i + 1, GT)
    ELSE 0

\* token_re = (group_open|group_close|ls_tag) matched at atom i: the end, or 0
TokenAt(t, i) ==
    LET gopen == GroupOpenAt(t, i).end
    IN IF gopen # 0 THEN gopen
       ELSE IF GroupCloseAt(t, i) # 0 THEN GroupCloseAt(t, i)
       ELSE LsTagAt(t, i)

\* the next match of token_re.finditer at or after atom from; start = 0 at the end
RECURSIVE NextToken(_, _)
NextToken(t, from) ==
    IF from > Len(t) THEN [start |-> 0, end |-> 0]
    ELSE LET end == TokenAt(t, from)
         IN IF end # 0 THEN [start |-> from, end |-> end]
            ELSE NextToken(t, from + 1)

----------------------------------------------------------------------------
(* build_width_map *)

\* mutant: a key already in the table keeps its first width
MapPut_FirstWins(m, key, width) ==
    IF key \in DOMAIN m THEN m
    ELSE [k \in DOMAIN m \cup {key} |-> IF k = key THEN width ELSE m[k]]

\* width_map[key] = width
MapPut(m, key, width) ==
    [k \in DOMAIN m \cup {key} |-> IF k = key THEN width ELSE m[k]]

\* mutant: a Group close tag leaves the scope as it is
AfterGroupClose_KeepsScope(group) == group

\* current_group = None at a Group close tag
AfterGroupClose(group) == None

\* the body of the scanner's loop for one token; st = [current_group, width_map]
ScanBody(token, st) ==
    IF GroupOpenAt(token, 1).end # 0
    THEN [st EXCEPT !.current_group = Some(GroupOpenAt(token, 1).id)]
    ELSE IF GroupCloseAt(token, 1) # 0
    THEN [st EXCEPT !.current_group = AfterGroupClose(@)]
    ELSE IF LsTagAt(token, 1) # 0 /\ st.current_group # None
    THEN LET id_m == IdAttrSearch(token)
             w_m == WidthAttrSearch(token)
         IN IF ~id_m.hit THEN st
            ELSE IF ~w_m.hit THEN st
            ELSE [st EXCEPT !.width_map =
                     MapPut(@, <<st.current_group[1], id_m.value>>, w_m.value)]
    ELSE st

----------------------------------------------------------------------------
(* apply_widths_surgically *)

\* f'Width="{new_width}"'
WidthAttr(new_width) == <<"Width=", Q>> \o new_width \o <<Q>>

\* mutant: the result of the substitution is dropped
ReplaceWidth_KeepsTag(tag, new_width) == tag

\* width_attr_re.sub(_repl, tag, count=1)
ReplaceWidth(tag, new_width) ==
    LET wm == WidthAttrSearch(tag)
    IN Slice(tag, 1, wm.start - 1) \o WidthAttr(new_width)
          \o Slice(tag, wm.end + 1, Len(tag))

\* the tag has no Width: insert one before Height=, else before the closer
InsertWidth(tag, new_width) ==
    LET height_pos == HeightSearch(tag)
        close_m == CloseSearch(tag)
    IN IF height_pos # 0
       THEN Slice(tag, 1, height_pos - 1) \o WidthAttr(new_width) \o <<SP>>
               \o Slice(tag, height_pos, Len(tag))
       ELSE IF close_m = 0 THEN tag
       ELSE Slice(tag, 1, close_m - 1) \o <<SP>> \o WidthAttr(new_width)
               \o Slice(tag, close_m, Len(tag))

\* new_tag for a tag whose key is in width_map
NewTag(tag, new_width) ==
    IF WidthAttrSearch(tag).hit THEN ReplaceWidth(tag, new_width)
    ELSE InsertWidth(tag, new_width)

\* key in width_map
InMap(map, key) == key \in DOMAIN map

\* mutant: the table is searched by the loc id alone
PatchTag_IgnoresGroup(tag, map, group, count) ==
    LET id_m == IdAttrSearch(tag)
        keys == {k \in DOMAIN map : id_m.hit /\ k[2] = id_m.value}
    IN IF keys # {}
       THEN [tag |-> NewTag(tag, map[CHOOSE k \in keys : TRUE]),
             updated_count |-> count + 1]
       ELSE [tag |-> tag, updated_count |-> count]

\* mutant: the count goes up for every item tag in a scope
PatchTag_CountsAll(tag, map, group, count) ==
    LET id_m == IdAttrSearch(tag)
        key == <<group, id_m.value>>
    IN IF id_m.hit /\ InMap(map, key)
       THEN [tag |-> NewTag(tag, map[key]), updated_count |-> count + 1]
       ELSE [tag |-> tag, updated_count |-> count + 1]

\* the ls branch of the patcher's loop: the tag appended and the count
PatchTag(tag, map, group, count) ==
    LET id_m == IdAttrSearch(tag)
        key == <<group, id_m.value>>
    IN IF id_m.hit /\ InMap(map, key)
       THEN [tag |-> NewTag(tag, map[key]), updated_count |-> count + 1]
       ELSE [tag |-> tag, updated_count |-> count]

\* mutant: the text between the tokens is not copied
BeforeToken_Dropped(t, last, start) == <<>>

\* src_text[last_idx:m.start()]
BeforeToken(t, last, start) == Slice(t, last + 1, start - 1)

\* the body of the patcher's loop for the match tok = [start, end] of token_re
\* in t; st = [current_group, out_parts, last_idx, updated_count]
PatchBody(t, map, tok, st) ==
    LET token == Slice(t, tok.start, tok.end)
        before == st.out_parts \o BeforeToken(t, st.last_idx, tok.start)
    IN IF GroupOpenAt(token, 1).end # 0
       THEN [current_group |-> Some(GroupOpenAt(token, 1).id),
             out_parts |-> before \o token,
             last_idx |-> tok.end,
             updated_count |-> st.updated_count]
       ELSE IF GroupCloseAt(token, 1) # 0
       THEN [current_group |-> AfterGroupClose(st.current_group),
             out_parts |-> before \o token,
             last_idx |-> tok.end,
             updated_count |-> st.updated_count]
       ELSE IF LsTagAt(token, 1) # 0 /\ st.current_group # None
       THEN LET r == PatchTag(token, map, st.current_group[1], st.updated_count)
            IN [current_group |-> st.current_group,
                out_parts |-> before \o r.tag,
                last_idx |-> tok.end,
                updated_count |-> r.updated_count]
       ELSE [current_group |-> st.current_group,
             out_parts |-> before \o token,
             last_idx |-> tok.end,
             updated_count |-> st.updated_count]

\* the patcher's loop from scan position pos on, then the remainder appended:
\* [result, updated_count]
RECURSIVE PatchLoop(_, _, _, _)
PatchLoop(t, map, pos, st) ==
    LET tok == NextToken(t, pos)
    IN IF tok.start = 0
       THEN [result |-> st.out_parts \o Slice(t, st.last_idx + 1, Len(t)),
             updated_count |-> st.updated_count]
       ELSE PatchLoop(t, map, tok.end + 1, PatchBody(t, map, tok, st))

\* apply_widths_surgically as a function of the source text and the table
ApplyWidths(t, map) ==
    PatchLoop(t, map, 1,
              [current_group |-> None, out_parts |-> <<>>, last_idx |-> 0,
               updated_count |-> 0])

----------------------------------------------------------------------------
(* Documents the files may hold *)

MaxSrcPieces == 3
MaxRefPieces == 3

Attr(name, value) == <<SP>> \o name \o <<Q, value, Q>>
GroupTag(id) == <<"<Group">> \o Attr(<<"Id=">>, id) \o <<GT>>
GroupEnd == <<"</Group", GT>>
Item(attrs, closer) == <<"<LocalizedString">> \o attrs \o closer
\* text between tokens: a line break and a Group tag that carries no Id
Filler == <<NL, "<Group", GT>>

IdOk == Attr(<<"Id=">>, "OkButton")
IdCancel == Attr(<<"Id=">>, "CancelButton")
Width50 == Attr(<<"Width=">>, "50")
Width20 == Attr(<<"Width=">>, "20")
Height20 == Attr(<<"Height=">>, "20")
MaxWidth9 == Attr(<<"Max", "Width=">>, "9")

SrcItems ==
    { Item(MaxWidth9 \o IdOk, <<SLASH, GT>>),
      Item(IdOk, <<SP, GT>>),
      Item(IdOk \o Height20, <<SLASH, GT>>),
      Item(Height20 \o IdOk, <<GT>>),
      Item(IdOk \o MaxWidth9 \o Width20, <<SLASH, GT>>),
      Item(Width20, <<SLASH, GT>>),
      Item(Width20 \o IdCancel, <<SP, SLASH, GT>>) }

RefItems ==
    { Item(IdOk \o Width50, <<SLASH, GT>>),
      Item(IdOk \o Width20, <<SLASH, GT>>),
      Item(MaxWidth9 \o IdCancel \o Width50, <<GT>>),
      Item(Width50, <<SLASH, GT>>),
      Item(IdOk \o MaxWidth9, <<SLASH, GT>>) }

Structure == {GroupTag("Dialog1"), GroupTag("Dialog2"), GroupEnd, Filler}

\* every concatenation of at most n pieces
Docs(pieces, n) ==
    {Concat(d) : d \in UNION {[1 .. k -> pieces] : k \in 0 .. n}}

SrcDocs == Docs(Structure \cup SrcItems, MaxSrcPieces)
RefDocs == Docs(Structure \cup RefItems, MaxRefPieces)

\* <Group Id="Dialog1"><LocalizedString Id="OkButton" Width="50"/></Group>
RefExample ==
    GroupTag("Dialog1") \o Item(IdOk \o Width50, <<SLASH, GT>>) \o GroupEnd

\* <Group Id="Dialog1"><LocalizedString Id="OkButton" Height="20"/></Group>
SrcExample ==
    GroupTag("Dialog1") \o Item(IdOk \o Height20, <<SLASH, GT>>) \o GroupEnd

\* two groups, the second with a Group nested in it and an item behind that
RefTwoGroups ==
    GroupTag("Dialog2") \o Item(IdOk \o Width50, <<SLASH, GT>>)
        \o Item(MaxWidth9 \o IdCancel \o Width50, <<GT>>) \o GroupEnd
        \o GroupTag("Dialog1") \o Item(Width20 \o IdCancel, <<SLASH, GT>>)
        \o GroupTag("Dialog2") \o GroupEnd
        \o Item(IdOk \o Width20, <<SLASH, GT>>) \o GroupEnd

\* a Group nested in a Group, an item before it and an item behind it
SrcNested ==
    GroupTag("Dialog1") \o Item(IdCancel \o MaxWidth9 \o Width50, <<SLASH, GT>>)
        \o GroupTag("Dialog2") \o GroupEnd
        \o Item(IdCancel \o Height20, <<SLASH, GT>>) \o GroupEnd

\* a width that reads Id= and a loc id that reads  Height= :
\* <Group Id="Dialog1"><LocalizedString Id="OkButton" Width="Id="/>
\* <LocalizedString Id=" Height=" Width="9"/></Group>
RefValueLikeId ==
    GroupTag("Dialog1")
        \o Item(IdOk \o <<SP, "Width=", Q, "Id=", Q>>, <<SLASH, GT>>)
        \o Item(<<SP, "Id=", Q, SP, "Height=", Q>> \o Attr(<<"Width=">>, "9"),
                <<SLASH, GT>>)
        \o GroupEnd

----------------------------------------------------------------------------
(* main *)

Init ==
    /\ pc = "main"
    /\ ref_text = <<>>
    /\ src_text = <<>>
    /\ output_file = None
    /\ scan_pos = 1
    /\ current_group = None
    /\ width_map = <<>>
    /\ out_parts = <<>>
    /\ last_idx = 0
    /\ updated_count = 0
    /\ stdout = <<>>

\* main calls build_width_map(reference): the file, which holds one of refs, is
\* read and the locals are set
CallBuildWidthMap(refs) ==
    /\ pc = "main"
    /\ pc' = "scan"
    /\ ref_text' \in refs
    /\ scan_pos' = 1
    /\ current_group' = None
    /\ width_map' = <<>>
    /\ UNCHANGED <<src_text, output_file, out_parts, last_idx, updated_count,
                   stdout>>

\* one iteration of the loop over token_re.finditer(ref_text)
ScanToken ==
    /\ pc = "scan"
    /\ LET tok == NextToken(ref_text, scan_pos)
       IN /\ tok.start # 0
          /\ LET st == ScanBody(Slice(ref_text, tok.start, tok.end),
                                [current_group |-> current_group,
                                 width_map |-> width_map])
             IN /\ current_group' = st.current_group
                /\ width_map' = st.width_map
          /\ scan_pos' = tok.end + 1
    /\ UNCHANGED <<pc, ref_text, src_text, output_file, out_parts, last_idx,
                   updated_count, stdout>>

\* build_width_map returns; main calls apply_widths_surgically(source, ...):
\* the file, which holds one of srcs, is read and the locals are set
CallApplyWidths(srcs) ==
    /\ pc = "scan"
    /\ NextToken(ref_text, scan_pos).start = 0
    /\ pc' = "patch"
    /\ src_text' \in srcs
    /\ scan_pos' = 1
    /\ out_parts' = <<>>
    /\ last_idx' = 0
    /\ current_group' = None
    /\ updated_count' = 0
    /\ UNCHANGED <<ref_text, output_file, width_map, stdout>>

\* one iteration of the loop over token_re.finditer(src_text)
PatchToken ==
    /\ pc = "patch"
    /\ LET tok == NextToken(src_text, scan_pos)
       IN /\ tok.start # 0
          /\ LET st == PatchBody(src_text, width_map, tok,
                                 [current_group |-> current_group,
                                  out_parts |-> out_parts,
                                  last_idx |-> last_idx,
                                  updated_count |-> updated_count])
             IN /\ current_group' = st.current_group
                /\ out_parts' = st.out_parts
                /\ last_idx' = st.last_idx
                /\ updated_count' = st.updated_count
          /\ scan_pos' = tok.end + 1
    /\ UNCHANGED <<pc, ref_text, src_text, output_file, width_map, stdout>>

\* the loop is over: the remainder is appended, the result written and reported
WriteOutput ==
    /\ pc = "patch"
    /\ NextToken(src_text, scan_pos).start = 0
    /\ pc' = "done"
    /\ out_parts' = out_parts \o Slice(src_text, last_idx + 1, Len(src_text))
    /\ output_file' = Some(out_parts')
    /\ stdout' = <<updated_count>>
    /\ UNCHANGED <<ref_text, src_text, scan_pos, current_group, width_map,
                   last_idx, updated_count>>

\* three reference documents, every source document
Next ==
    \/ CallBuildWidthMap({RefExample, RefTwoGroups, RefValueLikeId})
    \/ ScanToken
    \/ CallApplyWidths(SrcDocs \cup {SrcNested})
    \/ PatchToken
    \/ WriteOutput

Spec == Init /\ [][Next]_vars

\* every reference document, one source document
NextScanner ==
    \/ CallBuildWidthMap(RefDocs)
    \/ ScanToken
    \/ CallApplyWidths({SrcNested})
    \/ PatchToken
    \/ WriteOutput

SpecScanner == Init /\ [][NextScanner]_vars

----------------------------------------------------------------------------
(* The notions the properties are stated in.  They are read off the tags    *)
(* themselves, not off the program's regular expressions: an attribute is   *)
(* a name that follows white space and is followed by a quoted value.       *)

RECURSIVE TokensFrom(_, _)
TokensFrom(t, pos) ==
    LET tok == NextToken(t, pos)
    IN IF tok.start = 0 THEN <<>> ELSE <<tok>> \o TokensFrom(t, tok.end + 1)

\* the token stream of a text: its tokens in document order, each with its
\* span and its tag
Tokens(t) ==
    LET spans == TokensFrom(t, 1)
    IN [k \in 1 .. Len(spans) |->
          [start |-> spans[k].start, end |-> spans[k].end,
           tag |-> Slice(t, spans[k].start, spans[k].end)]]

IsGroupOpen(tag) == tag[1] = "<Group"
IsGroupClose(tag) == tag[1] = "</Group"
IsItem(tag) == tag[1] = "<LocalizedString"

AttrPositions(tag, name) ==
    {j \in 2 .. Len(tag) - 2 : tag[j] = name /\ IsSpace(tag[j - 1]) /\ tag[j + 1] = Q}
HasAttr(tag, name) == AttrPositions(tag, name) # {}
AttrPos(tag, name) == Min(AttrPositions(tag, name))
AttrValue(tag, name) ==
    LET j == AttrPos(tag, name)
    IN Slice(tag, j + 2, FirstIndex(tag, j + 2, Q) - 1)

\* the Group open and close tags among toks[1 .. k - 1]
GroupsBefore(toks, k) ==
    {j \in 1 .. k - 1 : IsGroupOpen(toks[j].tag) \/ IsGroupClose(toks[j].tag)}

\* the scope in force when token k is met: that of the most recent Group open
\* or close tag in front of it
ScopeBefore(toks, k) ==
    LET G == GroupsBefore(toks, k)
    IN IF G = {} THEN None
       ELSE IF IsGroupClose(toks[Max(G)].tag) THEN None
       ELSE Some(AttrValue(toks[Max(G)].tag, "Id="))

\* the key of item token k, when it is in a scope and carries an Id
KeyOf(toks, k) == <<ScopeBefore(toks, k)[1], AttrValue(toks[k].tag, "Id=")>>

\* token k is an item in a scope, with an Id, whose key is in the table
Matched(toks, k, map) ==
    /\ IsItem(toks[k].tag)
    /\ ScopeBefore(toks, k) # None
    /\ HasAttr(toks[k].tag, "Id=")
    /\ KeyOf(toks, k) \in DOMAIN map

MatchedItems(toks, map) == {k \in 1 .. Len(toks) : Matched(toks, k, map)}

\* the text between token k - 1 and token k; for k = Len(toks) + 1 the suffix
Gap(t, toks, k) ==
    Slice(t, IF k = 1 THEN 1 ELSE toks[k - 1].end + 1,
             IF k > Len(toks) THEN Len(t) ELSE toks[k].start - 1)

Done == pc = "done"

\* b is a with the value of one Width attribute replaced
OnlyWidthValueDiffers(a, b) ==
    \E j \in AttrPositions(a, "Width=") :
        LET q == FirstIndex(a, j + 2, Q)
        IN \E w \in {Slice(b, j + 2, e) : e \in j + 1 .. Len(b)} :
              b = Slice(a, 1, j + 1) \o w \o Slice(a, q, Len(a))

\* b is a with one Width attribute and one blank inserted
OneWidthInserted(a, b) ==
    \E p \in 1 .. Len(a), w \in {<<b[k]>> : k \in 1 .. Len(b)} :
        \/ b = Slice(a, 1, p) \o <<SP>> \o WidthAttr(w) \o Slice(a, p + 1, Len(a))
        \/ b = Slice(a, 1, p) \o WidthAttr(w) \o <<SP>> \o Slice(a, p + 1, Len(a))

(* C1: verbatim preservation.  When the patcher is done, the output has the *)
(* same tokens as the source, in the same order; the text between tokens    *)
(* and after the last token is that of the source; every Group tag and      *)
(* every item tag that is not matched is that of the source; and a matched  *)
(* item tag is that of the source, or differs from it only in the value of  *)
(* a Width attribute it had or by one inserted Width attribute.             *)
C1_VerbatimPreservation ==
    Done =>
      LET src == Tokens(src_text)
          out == Tokens(out_parts)
      IN /\ output_file = Some(out_parts)
         /\ Len(out) = Len(src)
         /\ \A k \in 1 .. Len(src) + 1 :
               Gap(out_parts, out, k) = Gap(src_text, src, k)
         /\ \A k \in 1 .. Len(src) :
               \/ out[k].tag = src[k].tag
               \/ /\ Matched(src, k, width_map)
                  /\ \/ OnlyWidthValueDiffers(src[k].tag, out[k].tag)
                     \/ /\ ~HasAttr(src[k].tag, "Width=")
                        /\ OneWidthInserted(src[k].tag, out[k].tag)

\* done, with text between two tokens and a tag rewritten
C1_Witness ==
    /\ Done
    /\ LET src == Tokens(src_text)
           out == Tokens(out_parts)
       IN /\ \E k \in 2 .. Len(src) : Gap(src_text, src, k) # <<>>
          /\ \E k \in 1 .. Len(src) : out[k].tag # src[k].tag

C3_Idempotent ==
    Done => ApplyWidths(out_parts, width_map).result = out_parts

\* done, the first run inserted a Width attribute
C3_Witness ==
    /\ Done
    /\ LET src == Tokens(src_text)
       IN \E k \in MatchedItems(src, width_map) : ~HasAttr(src[k].tag, "Width=")

(* C4: the reported count is the number of item tags whose Width *)
(* value was changed or inserted (those the output holds in another form    *)
(* than the source); a tag whose Width already is the table's value is not  *)
(* counted.                                                                 *)
C4_CountsChangedTags ==
    Done =>
      LET src == Tokens(src_text)
          out == Tokens(out_parts)
      IN /\ Len(out) = Len(src)
         /\ stdout = <<Cardinality({k \in 1 .. Len(src) : out[k].tag # src[k].tag})>>

\* done, a matched tag already had the table's width
C4_Witness ==
    /\ Done
    /\ LET src == Tokens(src_text)
           out == Tokens(out_parts)
       IN \E k \in MatchedItems(src, width_map) : out[k].tag = src[k].tag

\* where the closing delimiter of a tag starts: at its '/>' or '>', or at the
\* white space in front of that
CloserStart(tag) ==
    LET d == IF tag[Len(tag) - 1] = SLASH THEN Len(tag) - 1 ELSE Len(tag)
    IN Min({e \in 1 .. d : \A i \in e .. d - 1 : IsSpace(tag[i])})

(* C6: insertion placement.  A matched item tag without a Width attribute   *)
(* gets it right in front of its Height attribute when it has one, and else *)
(* behind its last attribute, in front of the closing delimiter and of the  *)
(* white space in front of that.                                            *)
C6_InsertionPlacement ==
    Done =>
      LET src == Tokens(src_text)
          out == Tokens(out_parts)
      IN /\ Len(out) = Len(src)
         /\ \A k \in MatchedItems(src, width_map) :
               ~HasAttr(src[k].tag, "Width=") =>
                  LET a == src[k].tag
                      w == width_map[KeyOf(src, k)]
                      at == IF HasAttr(a, "Height=") THEN AttrPos(a, "Height=")
                            ELSE CloserStart(a)
                      ins == IF HasAttr(a, "Height=")
                             THEN <<"Width=", Q>> \o w \o <<Q, SP>>
                             ELSE <<SP, "Width=", Q>> \o w \o <<Q>>
                  IN out[k].tag = Slice(a, 1, at - 1) \o ins \o Slice(a, at, Len(a))

\* done, a Width was inserted in front of a Height and another in front of the
\* white space before the closing delimiter
C6_Witness ==
    /\ Done
    /\ LET src == Tokens(src_text)
           M == MatchedItems(src, width_map)
       IN /\ \E k \in M :
                ~HasAttr(src[k].tag, "Width=") /\ HasAttr(src[k].tag, "Height=")
          /\ \E k \in M :
                /\ ~HasAttr(src[k].tag, "Width=") /\ ~HasAttr(src[k].tag, "Height=")
                /\ CloserStart(src[k].tag) < Len(src[k].tag)

ExampleRun == Done /\ ref_text = RefExample /\ src_text = SrcExample

(* C7 as claimed: for the worked example the output is                      *)
(* <Group Id="Dialog1"><LocalizedString Width="50" Height="20"/></Group>    *)
(* and the count is 1.                                                      *)
C7_ExampleAsClaimed ==
    ExampleRun =>
      /\ output_file =
            Some(<<"<Group", " ", "Id=", "\"", "Dialog1", "\"", ">",
                   "<LocalizedString", " ", "Width=", "\"", "50", "\"",
                   " ", "Height=", "\"", "20", "\"", "/", ">", "</Group", ">">>)
      /\ stdout = <<1>>

(* C7 as amended: for the worked example the output is <Group Id="Dialog1"> *)
(* <LocalizedString Id="OkButton" Width="50" Height="20"/></Group> (the Id  *)
(* attribute stays) and the count is 1.                                     *)
C7_ExampleKeepsId ==
    ExampleRun =>
      /\ output_file =
            Some(<<"<Group", " ", "Id=", "\"", "Dialog1", "\"", ">",
                   "<LocalizedString", " ", "Id=", "\"", "OkButton", "\"",
                   " ", "Width=", "\"", "50", "\"",
                   " ", "Height=", "\"", "20", "\"", "/", ">", "</Group", ">">>)
      /\ stdout = <<1>>

\* the worked example has run
C7_Witness == ExampleRun /\ updated_count = 1

\* the index in src of the token the patcher's loop meets next, 0 at the end
Pending(src) ==
    LET S == {k \in 1 .. Len(src) : src[k].start >= scan_pos}
    IN IF S = {} THEN 0 ELSE Min(S)

\* the tokens of the source the patcher's loop has dealt with
Patched(src) == {k \in 1 .. Len(src) : src[k].end <= last_idx}

\* the loop emits the text in front of token k and the token as they are
EmitsUnchanged(src, k) ==
    out_parts' = out_parts \o Gap(src_text, src, k) \o src[k].tag

\* item k is in a scope and has an Id for which another scope has an entry
OtherScopeEntry(src, k) ==
    /\ IsItem(src[k].tag)
    /\ ScopeBefore(src, k) # None
    /\ HasAttr(src[k].tag, "Id=")
    /\ \E key \in DOMAIN width_map :
          key[2] = KeyOf(src, k)[2] /\ key[1] # KeyOf(src, k)[1]

(* C5: scope isolation.  When the patcher meets an item with Id X in scope  *)
(* A and the table has an entry for X under another scope: if the table has *)
(* no entry for (A, X) the tag is emitted unchanged and the count stays,    *)
(* and if it has one the tag gets the width of (A, X).                      *)
C5_ScopeIsolation ==
    [][ pc = "patch" =>
          LET src == Tokens(src_text)
              k == Pending(src)
              key == KeyOf(src, k)
              front == Len(out_parts) + Len(Gap(src_text, src, k))
              new_tag == Slice(out_parts', front + 1, Len(out_parts'))
          IN (k # 0 /\ OtherScopeEntry(src, k)) =>
                IF key \in DOMAIN width_map
                THEN /\ HasAttr(new_tag, "Width=")
                     /\ AttrValue(new_tag, "Width=") = width_map[key]
                     /\ updated_count' = updated_count + 1
                ELSE /\ EmitsUnchanged(src, k)
                     /\ updated_count' = updated_count ]_vars

\* the patcher has dealt with an item without a Width whose Id has an entry
\* under another scope only
C5_Witness ==
    /\ pc \in {"patch", "done"}
    /\ LET src == Tokens(src_text)
       IN \E k \in Patched(src) :
             /\ OtherScopeEntry(src, k)
             /\ KeyOf(src, k) \notin DOMAIN width_map
             /\ ~HasAttr(src[k].tag, "Width=")

\* item k has no Id, or is in no scope, or its key is not in the table
SoftMismatch(src, k) ==
    /\ IsItem(src[k].tag)
    /\ \/ ~HasAttr(src[k].tag, "Id=")
       \/ ScopeBefore(src, k) = None
       \/ KeyOf(src, k) \notin DOMAIN width_map

(* C8: soft mismatches.  When the patcher meets an item tag that has no Id, *)
(* or is in no scope, or whose (scope, Id) has no table entry, it emits the *)
(* tag unchanged, leaves the count as it is and goes on.                    *)
C8_SoftMismatch ==
    [][ pc = "patch" =>
          LET src == Tokens(src_text)
              k == Pending(src)
          IN (k # 0 /\ SoftMismatch(src, k)) =>
                /\ EmitsUnchanged(src, k)
                /\ updated_count' = updated_count
                /\ pc' = "patch" ]_vars

\* the patcher has dealt with an item in no scope whose Id has a table entry
\* under some scope, and with an item without Id in a scope
C8_Witness ==
    /\ pc \in {"patch", "done"}
    /\ LET src == Tokens(src_text)
       IN /\ \E k \in Patched(src) :
                /\ IsItem(src[k].tag)
                /\ ScopeBefore(src, k) = None
                /\ HasAttr(src[k].tag, "Id=")
                /\ \E key \in DOMAIN width_map :
                      key[2] = AttrValue(src[k].tag, "Id=")
          /\ \E k \in Patched(src) :
                /\ IsItem(src[k].tag)
                /\ ScopeBefore(src, k) # None
                /\ ~HasAttr(src[k].tag, "Id=")

\* the tokens of the reference the scanner's loop has dealt with
Scanned(ref) ==
    IF pc = "scan" THEN {k \in 1 .. Len(ref) : ref[k].end < scan_pos}
    ELSE 1 .. Len(ref)

\* item k of the reference is in a scope and has an Id and a Width
Contributes(ref, k) ==
    /\ IsItem(ref[k].tag)
    /\ ScopeBefore(ref, k) # None
    /\ HasAttr(ref[k].tag, "Id=")
    /\ HasAttr(ref[k].tag, "Width=")

\* the table the tokens in K define: each key's width is that of the last
\* contributing item with the key
TableOf(ref, K) ==
    LET C == {k \in K : Contributes(ref, k)}
        keys == {KeyOf(ref, k) : k \in C}
    IN [key \in keys |->
          AttrValue(ref[Max({k \in C : KeyOf(ref, k) = key})].tag, "Width=")]

(* C9: the scanner's result.  After any number of tokens, and so at the     *)
(* end, the table maps (S, I) to W exactly when the last item met in scope  *)
(* S with Id I and a Width has Width W; items in no scope, without Id or    *)
(* without Width add, remove and alter nothing.                             *)
C9_ScannerTable ==
    pc # "main" =>
       LET ref == Tokens(ref_text)
       IN width_map = TableOf(ref, Scanned(ref))

\* the scan is over; an item overwrote the width an earlier item gave its key
C9_Witness ==
    /\ pc = "patch"
    /\ LET ref == Tokens(ref_text)
       IN \E j, k \in 1 .. Len(ref) :
             /\ j < k /\ Contributes(ref, j) /\ Contributes(ref, k)
             /\ KeyOf(ref, j) = KeyOf(ref, k)
             /\ AttrValue(ref[j].tag, "Width=") # AttrValue(ref[k].tag, "Width=")

\* token k follows the close tag of a Group nested in a Group with Id g
AfterNested(toks, k, g) ==
    LET G == GroupsBefore(toks, k)
    IN \E i, j, c \in G :
          /\ i < j /\ j < c
          /\ G \cap (i + 1 .. k) = {j, c}
          /\ IsGroupOpen(toks[i].tag) /\ AttrValue(toks[i].tag, "Id=") = g
          /\ IsGroupOpen(toks[j].tag)
          /\ IsGroupClose(toks[c].tag)

(* C10: flat scope tracking.  In the scanner and in the patcher, after any  *)
(* number of tokens the current scope is unset when no scope-open token was *)
(* met or the most recent scope token is a close, and else is the Id of the *)
(* most recent scope-open token.  So an item behind the close tag of a      *)
(* nested Group is in no scope: the scanner records only items whose most   *)
(* recent scope token is an open tag, under that tag's Id, and the patcher  *)
(* changes only such items.                                                 *)
C10_FlatScope ==
    LET ref == Tokens(ref_text)
        src == Tokens(src_text)
        out == Tokens(out_parts)
    IN /\ pc = "scan" =>
             current_group = ScopeBefore(ref, Cardinality(Scanned(ref)) + 1)
       /\ pc = "patch" =>
             current_group = ScopeBefore(src, Cardinality(Patched(src)) + 1)
       /\ pc \in {"patch", "done"} =>
             \A key \in DOMAIN width_map :
                \E k \in 1 .. Len(ref) :
                   /\ IsItem(ref[k].tag)
                   /\ ScopeBefore(ref, k) = Some(key[1])
       /\ Done =>
             /\ Len(out) = Len(src)
             /\ \A k \in 1 .. Len(src) :
                   ScopeBefore(src, k) = None => out[k].tag = src[k].tag

\* done; behind the close tag of a Group nested in a Group g, an item without
\* Width whose Id has an entry under g is left as it is, and the reference has
\* an item with Id and Width behind a nested Group that the table does not hold
C10_Witness ==
    /\ Done
    /\ LET ref == Tokens(ref_text)
           src == Tokens(src_text)
           out == Tokens(out_parts)
       IN /\ \E k \in 1 .. Len(src) :
                /\ IsItem(src[k].tag)
                /\ HasAttr(src[k].tag, "Id=") /\ ~HasAttr(src[k].tag, "Width=")
                /\ \E key \in DOMAIN width_map :
                      /\ key[2] = AttrValue(src[k].tag, "Id=")
                      /\ AfterNested(src, k, key[1])
                /\ out[k].tag = src[k].tag
          /\ \E k \in 1 .. Len(ref) :
                /\ IsItem(ref[k].tag)
                /\ HasAttr(ref[k].tag, "Id=") /\ HasAttr(ref[k].tag, "Width=")
                /\ AfterNested(ref, k, <<"Dialog1">>)
                /\ <<<<"Dialog1">>, AttrValue(ref[k].tag, "Id=")>>
                      \notin DOMAIN width_map

====
